---- MODULE Spec2Model ----
(***************************************************************************)
(* Baseball broadcast board: the operation panel (operation.js) and the    *)
(* display board (public/js/board.js) as one Vue application per page.     *)
(* A page is either the operation panel or the display board (clientType). *)
(* Every action is one browser task: a lifecycle hook, a WebSocket event,  *)
(* a timer expiry or a click, followed by the flush of the boardData       *)
(* watcher that the task queued.                                           *)
(***************************************************************************)
EXTENDS Integers, Sequences, FiniteSets, TLC

VARIABLES
    clientType,          \* "operation" | "board": which page this is
    lifecycle,           \* "new" (data() ran) | "created" | "unmounted"
    boardData,           \* the 14 GameState fields of the page
    restoredFromServer,  \* operation panel: echo-suppression flag
    socket,              \* readyState of this.socket, "null" when unset
    liveSockets,         \* number of WebSocket objects not yet CLOSED
    connectionStatus,
    reconnectAttempts,
    reconnectTimer,      \* the handle: "null" | "armed" | "fired"
    timers,              \* delays of the armed, not yet fired timeouts
    clientRole,          \* "null" | "master" | "slave"
    clientId,
    masterClientId,
    masterToken,         \* sessionStorage['masterToken'], "null" when absent
    event,               \* the task handled last (history)
    sent,                \* the messages that task sent, in order
    grantedOnSocket      \* a message handled since this.socket opened has
                         \* granted master and none since has taken it (history)

vars == <<clientType, lifecycle, boardData, restoredFromServer, socket, liveSockets,
          connectionStatus, reconnectAttempts, reconnectTimer, timers, clientRole,
          clientId, masterClientId, masterToken, event, sent, grantedOnSocket>>

connVars == <<socket, liveSockets, connectionStatus, reconnectAttempts, reconnectTimer, timers>>
roleVars == <<clientRole, clientId, masterClientId, masterToken>>

-----------------------------------------------------------------------------
(* Bounds of the model                                                     *)

\* incrementScoreTop / incrementScoreBottom are unbounded in the code.
MaxScore == 1
\* Consecutive failed connection attempts the environment produces in the
\* specifications that also explore the game state.
MaxRetry == 1
\* Innings of the games the operator surface is explored on.
MaxLastInning == 2

(* Program constants                                                       *)
maxReconnectAttempts == 10
reconnectDelay == 1000
MaxDelay == 30000
MaxBall == 3
MaxStrike == 2
MaxOut == 2
DefaultLastInning == 9
BoardLastInning == 5

Fields == {"game_title", "team_top", "team_bottom", "game_inning", "last_inning", "top",
           "first_base", "second_base", "third_base", "ball_cnt", "strike_cnt",
           "out_cnt", "score_top", "score_bottom"}
TextFields == {"game_title", "team_top", "team_bottom"}
BoolFields == {"top", "first_base", "second_base", "third_base"}
NumFields == Fields \ (TextFields \cup BoolFields)

-----------------------------------------------------------------------------
(* ConnectionManager: the methods act on the connection fields of `this`.  *)

This ==
    [socket |-> socket, liveSockets |-> liveSockets,
     connectionStatus |-> connectionStatus, reconnectAttempts |-> reconnectAttempts,
     reconnectTimer |-> reconnectTimer, timers |-> timers]

Commit(t) ==
    /\ socket' = t.socket
    /\ liveSockets' = t.liveSockets
    /\ connectionStatus' = t.connectionStatus
    /\ reconnectAttempts' = t.reconnectAttempts
    /\ reconnectTimer' = t.reconnectTimer
    /\ timers' = t.timers

RECURSIVE Pow2(_)
Pow2(n) == IF n = 0 THEN 1 ELSE 2 * Pow2(n - 1)

Min(a, b) == IF a < b THEN a ELSE b

\* fault variant of delay: the cap is missing
DelayNoCap(n) == reconnectDelay * Pow2(n)
\* Math.min(reconnectDelay * Math.pow(2, reconnectAttempts), 30000)
delay(n) == Min(reconnectDelay * Pow2(n), MaxDelay)

\* clearTimeout(handle) removes the timeout the handle designates when it is
\* still pending; the handle designates the timeout armed last.
cancelReconnect(t) ==
    IF t.reconnectTimer # "null"
    THEN [t EXCEPT !.reconnectTimer = "null",
                   !.timers = IF t.reconnectTimer = "armed" /\ Len(@) > 0
                              THEN SubSeq(@, 1, Len(@) - 1) ELSE @]
    ELSE t

\* fault variant of scheduleReconnect: the attempt limit is missing
ScheduleNoLimit(t) ==
    LET c == cancelReconnect(t) IN
    [c EXCEPT !.reconnectTimer = "armed",
              !.timers = Append(@, delay(c.reconnectAttempts))]
\* fault variant of scheduleReconnect: the return after giving up is missing
ScheduleNoReturn(t) ==
    LET c == cancelReconnect(t) IN
    [c EXCEPT !.connectionStatus = IF c.reconnectAttempts >= maxReconnectAttempts
                                   THEN "disconnected" ELSE @,
              !.reconnectTimer = "armed",
              !.timers = Append(@, delay(c.reconnectAttempts))]
\* scheduleReconnect()
scheduleReconnect(t) ==
    LET c == cancelReconnect(t) IN
    IF c.reconnectAttempts >= maxReconnectAttempts
    THEN [c EXCEPT !.connectionStatus = "disconnected"]
    ELSE [c EXCEPT !.reconnectTimer = "armed",
                   !.timers = Append(@, delay(c.reconnectAttempts))]

\* fault variant of connectWebSocket: `finally` in place of `catch`
ConnectFinally(t, throws) ==
    scheduleReconnect(IF ~throws
                      THEN [t EXCEPT !.socket = "CONNECTING", !.liveSockets = @ + 1]
                      ELSE t)
\* new WebSocket(url) either returns a socket in CONNECTING or throws.
connectWebSocket(t, throws) ==
    IF ~throws
    THEN [t EXCEPT !.socket = "CONNECTING", !.liveSockets = @ + 1]
    ELSE scheduleReconnect(t)

handleWebSocketClose(t) ==
    IF t.connectionStatus # "disconnected"
    THEN scheduleReconnect([t EXCEPT !.connectionStatus = "reconnecting"])
    ELSE t

\* handleWebSocketError only logs.
handleWebSocketError(t) == t

\* the arrow function given to setTimeout
reconnectTimerCallback(t, throws) ==
    connectWebSocket([t EXCEPT !.reconnectAttempts = @ + 1], throws)

\* WebSocket.close(): CONNECTING and OPEN go to CLOSING, otherwise nothing.
SocketClose(rs) == IF rs \in {"CONNECTING", "OPEN"} THEN "CLOSING" ELSE rs

beforeUnmount(t) ==
    LET c == cancelReconnect(t) IN
    IF c.socket # "null" THEN [c EXCEPT !.socket = SocketClose(@)] ELSE c

-----------------------------------------------------------------------------
(* GameStateModel: the operator's methods, on the fields of boardData.     *)

initParams(bd) ==
    [bd EXCEPT !.first_base = FALSE, !.second_base = FALSE, !.third_base = FALSE,
               !.ball_cnt = 0, !.strike_cnt = 0, !.out_cnt = 0]

changeOffense(bd) ==
    initParams(IF bd.top THEN [bd EXCEPT !.top = FALSE] ELSE [bd EXCEPT !.top = TRUE])

\* fault variant of ballCountUp: the bound is tested with <=
BallCountUpOffByOne(bd) == IF bd.ball_cnt <= MaxBall THEN [bd EXCEPT !.ball_cnt = @ + 1] ELSE bd
ballCountUp(bd) == IF bd.ball_cnt < MaxBall THEN [bd EXCEPT !.ball_cnt = @ + 1] ELSE bd
ballCountDown(bd) == IF bd.ball_cnt >= 1 THEN [bd EXCEPT !.ball_cnt = @ - 1] ELSE bd
strikeCountUp(bd) == IF bd.strike_cnt < MaxStrike THEN [bd EXCEPT !.strike_cnt = @ + 1] ELSE bd
strikeCountDown(bd) == IF bd.strike_cnt >= 1 THEN [bd EXCEPT !.strike_cnt = @ - 1] ELSE bd
outCountUp(bd) == IF bd.out_cnt < MaxOut THEN [bd EXCEPT !.out_cnt = @ + 1] ELSE bd
outCountDown(bd) == IF bd.out_cnt >= 1 THEN [bd EXCEPT !.out_cnt = @ - 1] ELSE bd

\* fault variant of gameStatusUp: the inning is stepped twice
GameStatusUpTwice(bd) ==
    IF bd.game_inning < bd.last_inning + 1
    THEN initParams([bd EXCEPT !.game_inning = @ + 2]) ELSE bd
gameStatusUp(bd) ==
    IF bd.game_inning < bd.last_inning + 1
    THEN initParams([bd EXCEPT !.game_inning = @ + 1]) ELSE bd

\* fault variant of gameStatusDown: the bound is tested with >=
GameStatusDownOffByOne(bd) ==
    IF bd.game_inning >= 0
    THEN initParams([bd EXCEPT !.game_inning = @ - 1]) ELSE bd
gameStatusDown(bd) ==
    IF bd.game_inning > 0
    THEN initParams([bd EXCEPT !.game_inning = @ - 1]) ELSE bd

\* fault variant of gameForward: the bound is tested with <
GameForwardStrict(bd) ==
    IF bd.game_inning < bd.last_inning
    THEN initParams(IF bd.top THEN [bd EXCEPT !.top = FALSE]
                    ELSE [bd EXCEPT !.game_inning = @ + 1, !.top = TRUE])
    ELSE bd
gameForward(bd) ==
    IF bd.game_inning <= bd.last_inning
    THEN initParams(IF bd.top THEN [bd EXCEPT !.top = FALSE]
                    ELSE [bd EXCEPT !.game_inning = @ + 1, !.top = TRUE])
    ELSE bd

\* fault variant of gameBackward: the scores survive the return to inning 0
GameBackwardKeepsScores(bd) ==
    IF bd.game_inning >= 1
    THEN initParams(IF bd.top THEN [bd EXCEPT !.game_inning = @ - 1, !.top = FALSE]
                    ELSE [bd EXCEPT !.top = TRUE])
    ELSE bd
gameBackward(bd) ==
    IF bd.game_inning >= 1
    THEN LET b1 == initParams(IF bd.top THEN [bd EXCEPT !.game_inning = @ - 1, !.top = FALSE]
                              ELSE [bd EXCEPT !.top = TRUE])
         IN IF b1.game_inning = 0
            THEN [b1 EXCEPT !.score_top = 0, !.score_bottom = 0] ELSE b1
    ELSE bd

incrementScoreTop(bd) == [bd EXCEPT !.score_top = @ + 1]
decrementScoreTop(bd) == IF bd.score_top > 0 THEN [bd EXCEPT !.score_top = @ - 1] ELSE bd
incrementScoreBottom(bd) == [bd EXCEPT !.score_bottom = @ + 1]
decrementScoreBottom(bd) == IF bd.score_bottom > 0 THEN [bd EXCEPT !.score_bottom = @ - 1] ELSE bd

\* confirm() answers `confirmed`
resetGame(bd, confirmed) ==
    IF ~confirmed THEN bd
    ELSE initParams([bd EXCEPT !.game_inning = 0, !.top = TRUE,
                               !.score_top = 0, !.score_bottom = 0])

endGame(bd) == initParams([bd EXCEPT !.game_inning = bd.last_inning + 1])

OperatorOps ==
    {"ballCountUp", "ballCountDown", "strikeCountUp", "strikeCountDown", "outCountUp",
     "outCountDown", "incrementScoreTop", "decrementScoreTop", "incrementScoreBottom",
     "decrementScoreBottom", "changeOffense", "gameForward", "gameBackward",
     "gameStatusUp", "gameStatusDown", "resetGame", "endGame"}

\* the method a button of the operation panel is bound to
Method(op, bd, confirmed) ==
    CASE op = "ballCountUp" -> ballCountUp(bd)
      [] op = "ballCountDown" -> ballCountDown(bd)
      [] op = "strikeCountUp" -> strikeCountUp(bd)
      [] op = "strikeCountDown" -> strikeCountDown(bd)
      [] op = "outCountUp" -> outCountUp(bd)
      [] op = "outCountDown" -> outCountDown(bd)
      [] op = "incrementScoreTop" -> incrementScoreTop(bd)
      [] op = "decrementScoreTop" -> decrementScoreTop(bd)
      [] op = "incrementScoreBottom" -> incrementScoreBottom(bd)
      [] op = "decrementScoreBottom" -> decrementScoreBottom(bd)
      [] op = "changeOffense" -> changeOffense(bd)
      [] op = "gameForward" -> gameForward(bd)
      [] op = "gameBackward" -> gameBackward(bd)
      [] op = "gameStatusUp" -> gameStatusUp(bd)
      [] op = "gameStatusDown" -> gameStatusDown(bd)
      [] op = "resetGame" -> resetGame(bd, confirmed)
      [] op = "endGame" -> endGame(bd)

\* fault variant of isOperationDisabled: tests for the unassigned role
DisabledWhenUnassigned(role) == role = "null"
\* UI should be disabled if role is slave
isOperationDisabled(role) == role = "slave"
isMaster(role) == role = "master"

\* The panel's template binds every operation button to its method and
\* disables the button while isOperationDisabled: a click on a disabled
\* button calls nothing.
OperatorSurface(op, bd, role, confirmed) ==
    IF isOperationDisabled(role) THEN bd ELSE Method(op, bd, confirmed)

-----------------------------------------------------------------------------
(* SyncBroadcaster: the boardData watcher and updateBoard.                 *)

UpdateMsg(bd) == [type |-> "game_state_update", boardData |-> bd]

\* fault variant of updateBoard: the role test is missing
UpdateBoardAnyRole(sock, role, bd) ==
    IF sock = "OPEN" THEN <<UpdateMsg(bd)>> ELSE << >>
\* Only send updates if we are master
updateBoard(sock, role, bd) ==
    IF sock # "null" /\ sock = "OPEN" /\ role = "master"
    THEN <<UpdateMsg(bd)>> ELSE << >>

\* fault variant of the watcher: it never skips the broadcast
WatchNoSuppress(restored, sock, role, bd) ==
    [restoredFromServer |-> FALSE, sent |-> updateBoard(sock, role, bd)]
\* the handler of watch.boardData: what it leaves in restoredFromServer and
\* what it sends
watchBoardData(restored, sock, role, bd) ==
    IF restored
    THEN [restoredFromServer |-> FALSE, sent |-> << >>]
    ELSE [restoredFromServer |-> restored, sent |-> updateBoard(sock, role, bd)]

-----------------------------------------------------------------------------
(* Inbound messages.  event.data is a JSON text: `json` tells what         *)
(* JSON.parse makes of it ("invalid": it throws).  An object carries the   *)
(* fields below; an optional field that is absent is "undefined", and the  *)
(* optional boardData / data members are sequences of length 0 or 1.       *)

EmptyPayload == [f \in {} |-> 0]

Message(json, type) ==
    [json |-> json, type |-> type, role |-> "undefined", newRole |-> "undefined",
     clientId |-> "undefined", masterClientId |-> "undefined",
     masterToken |-> "undefined", clearToken |-> FALSE,
     boardData |-> << >>, data |-> << >>, flat |-> EmptyPayload]

NoMessage == Message("none", "undefined")

RoleAssignment(role, token) ==
    [Message("object", "role_assignment") EXCEPT
        !.role = role, !.clientId = "c1",
        !.masterClientId = IF role = "master" THEN "c1" ELSE "c2",
        !.masterToken = token]

RoleChanged(newRole, token, clear) ==
    [Message("object", "role_changed") EXCEPT
        !.newRole = newRole, !.masterToken = token, !.clearToken = clear]

\* shape: the member that carries the payload
GameStateMsg(type, shape, p) ==
    CASE shape = "boardData" -> [Message("object", type) EXCEPT !.boardData = <<p>>]
      [] shape = "data" -> [Message("object", type) EXCEPT !.data = <<p>>]
      [] shape = "flat" -> [Message("object", type) EXCEPT !.flat = p]

\* message.boardData || message.data || message
ExtractPayload(m) ==
    IF m.json # "object" THEN EmptyPayload
    ELSE IF Len(m.boardData) > 0 THEN m.boardData[1]
    ELSE IF Len(m.data) > 0 THEN m.data[1]
    ELSE m.flat

\* JSON.parse(event.data) throws, or reading message.type of null throws
ParseThrows(m) == m.json \in {"invalid", "null"}

\* message.type === 'game_state' || !message.type
IsGameState(m) == m.type = "game_state" \/ m.type = "undefined"

Has(p, f) == f \in DOMAIN p

\* JavaScript truthiness of savedState[f]: false for an absent member, "",
\* 0 and false
Truthy(p, f) ==
    /\ Has(p, f)
    /\ IF f \in TextFields THEN p[f] # ""
       ELSE IF f \in BoolFields THEN p[f]
       ELSE p[f] # 0

\* savedState[f] || d
OrElse(p, f, d) == IF Truthy(p, f) THEN p[f] ELSE d

\* operation panel: restore game state from a game_state message
RestoreGameState(bd, p) ==
    [game_title |-> OrElse(p, "game_title", bd.game_title),
     team_top |-> OrElse(p, "team_top", bd.team_top),
     team_bottom |-> OrElse(p, "team_bottom", bd.team_bottom),
     game_inning |-> OrElse(p, "game_inning", 0),
     last_inning |-> OrElse(p, "last_inning", DefaultLastInning),
     top |-> OrElse(p, "top", FALSE),
     first_base |-> OrElse(p, "first_base", FALSE),
     second_base |-> OrElse(p, "second_base", FALSE),
     third_base |-> OrElse(p, "third_base", FALSE),
     ball_cnt |-> OrElse(p, "ball_cnt", 0),
     strike_cnt |-> OrElse(p, "strike_cnt", 0),
     out_cnt |-> OrElse(p, "out_cnt", 0),
     score_top |-> OrElse(p, "score_top", 0),
     score_bottom |-> OrElse(p, "score_bottom", 0)]

\* display board: if ('f' in newData) this.boardData.f = newData.f
MergeBoardData(bd, p) == [f \in Fields |-> IF Has(p, f) THEN p[f] ELSE bd[f]]

\* truthiness of message.masterToken: false when absent or empty
TokenGiven(tok) == tok \notin {"undefined", ""}

\* The application fields a message handler reads and writes.
App ==
    [boardData |-> boardData, restoredFromServer |-> restoredFromServer,
     clientRole |-> clientRole, clientId |-> clientId,
     masterClientId |-> masterClientId, masterToken |-> masterToken]

\* fault variant of roleAssignmentToken: a token is stored whatever the role
StoreTokenAnyRole(stored, m) ==
    IF TokenGiven(m.masterToken) THEN m.masterToken ELSE stored
\* role_assignment: store master token if provided
roleAssignmentToken(stored, m) ==
    IF m.role = "master" /\ TokenGiven(m.masterToken) THEN m.masterToken ELSE stored

\* fault variant of roleChangedToken: the token is cleared before the new
\* one is saved
ClearBeforeSave(stored, m) ==
    LET cleared == IF m.clearToken THEN "null" ELSE stored
    IN IF m.newRole = "master" /\ TokenGiven(m.masterToken) THEN m.masterToken ELSE cleared
\* role_changed: save new master token if provided, then clear token if
\* instructed
roleChangedToken(stored, m) ==
    LET saved == IF m.newRole = "master" /\ TokenGiven(m.masterToken)
                 THEN m.masterToken ELSE stored
    IN IF m.clearToken THEN "null" ELSE saved

\* operation panel, handleWebSocketMessage
handleWebSocketMessageOperation(a, m) ==
    IF ParseThrows(m) THEN a
    ELSE IF m.type = "role_assignment"
    THEN [a EXCEPT !.clientRole = m.role,
                   !.clientId = m.clientId,
                   !.masterClientId = m.masterClientId,
                   !.masterToken = roleAssignmentToken(@, m)]
    ELSE IF m.type = "role_changed"
    THEN [a EXCEPT !.clientRole = m.newRole,
                   !.masterToken = roleChangedToken(@, m)]
    ELSE IF IsGameState(m)
    THEN [a EXCEPT !.boardData = RestoreGameState(a.boardData, ExtractPayload(m)),
                   !.restoredFromServer = TRUE]
    ELSE a

\* display board, handleWebSocketMessage.  A primitive newData is skipped
\* when falsy, and `in` applied to it throws inside the try otherwise.
handleWebSocketMessageBoard(a, m) ==
    IF ParseThrows(m) THEN a
    ELSE IF IsGameState(m)
    THEN IF m.json = "object"
         THEN [a EXCEPT !.boardData = MergeBoardData(a.boardData, ExtractPayload(m))]
         ELSE a
    ELSE a

handleWebSocketMessage(a, m) ==
    IF clientType = "operation" THEN handleWebSocketMessageOperation(a, m)
    ELSE handleWebSocketMessageBoard(a, m)

\* fault variant of Handshake: the stored token is never presented
HandshakeNoToken(type, storedToken) ==
    [type |-> "handshake", clientType |-> type, masterToken |-> "undefined"]
\* handleWebSocketOpen: the handshake sent on the opened socket.  The panel
\* adds sessionStorage['masterToken'] when it is truthy; the display board
\* never reads the store.
Handshake(type, storedToken) ==
    [type |-> "handshake", clientType |-> type,
     masterToken |-> IF type = "operation" /\ storedToken \notin {"null", ""}
                     THEN storedToken ELSE "undefined"]

\* fault variant of handleWebSocketOpen: reconnectAttempts is not reset
OpenKeepsAttempts(t) == [t EXCEPT !.connectionStatus = "connected"]
\* handleWebSocketOpen: status and attempts
handleWebSocketOpen(t) ==
    [t EXCEPT !.connectionStatus = "connected", !.reconnectAttempts = 0]

\* fault variant of releaseMasterControl: the stored token is kept
ReleaseKeepsToken(a, sock, confirmed) ==
    IF a.clientRole = "master" /\ confirmed /\ sock = "OPEN"
    THEN [app |-> a, sent |-> <<[type |-> "release_master"]>>]
    ELSE [app |-> a, sent |-> << >>]
\* fault variant of releaseMasterControl: the panel demotes itself at once
ReleaseSelfDemotes(a, sock, confirmed) ==
    IF a.clientRole = "master" /\ confirmed /\ sock = "OPEN"
    THEN [app |-> [a EXCEPT !.masterToken = "null", !.clientRole = "slave"],
          sent |-> <<[type |-> "release_master"]>>]
    ELSE [app |-> a, sent |-> << >>]
\* releaseMasterControl: what it sends and leaves in sessionStorage
releaseMasterControl(a, sock, confirmed) ==
    IF a.clientRole # "master" THEN [app |-> a, sent |-> << >>]
    ELSE IF ~confirmed THEN [app |-> a, sent |-> << >>]
    ELSE IF sock # "null" /\ sock = "OPEN"
    THEN [app |-> [a EXCEPT !.masterToken = "null"], sent |-> <<[type |-> "release_master"]>>]
    ELSE [app |-> a, sent |-> << >>]

-----------------------------------------------------------------------------
(* The tasks of the page.                                                  *)

Ev(kind, m, op, ok) == [kind |-> kind, msg |-> m, op |-> op, ok |-> ok]

IsRoleMessage(m) == m.json = "object" /\ m.type \in {"role_assignment", "role_changed"}

GrantedRole(m) == IF m.type = "role_assignment" THEN m.role ELSE m.newRole

\* History of the role messages on the current socket: reset by the open
\* event, set by a role message the panel handles.
GrantedAfter(ev) ==
    IF ev.kind = "open" THEN FALSE
    ELSE IF ev.kind = "message" /\ clientType = "operation" /\ IsRoleMessage(ev.msg)
    THEN GrantedRole(ev.msg) = "master"
    ELSE grantedOnSocket

\* Ends a task: stores what its handlers left in `this`, then flushes the
\* boardData watcher when a watched field changed.  The watcher exists on
\* the operation panel only and is stopped once the component is unmounted.
Finish(ev, t, a, out) ==
    LET changed == /\ clientType = "operation"
                   /\ lifecycle = "created"
                   /\ a.boardData # boardData
        w == IF changed
             THEN watchBoardData(a.restoredFromServer, t.socket, a.clientRole, a.boardData)
             ELSE [restoredFromServer |-> a.restoredFromServer, sent |-> << >>]
    IN /\ Commit(t)
       /\ boardData' = a.boardData
       /\ restoredFromServer' = w.restoredFromServer
       /\ clientRole' = a.clientRole
       /\ clientId' = a.clientId
       /\ masterClientId' = a.masterClientId
       /\ masterToken' = a.masterToken
       /\ event' = ev
       /\ sent' = out \o w.sent
       /\ grantedOnSocket' = GrantedAfter(ev)

\* created(): connectWebSocket().  A failure of the environment (the
\* constructor throws, a connecting socket fails) is produced only while
\* reconnectAttempts < lim.
Created(lim) ==
    /\ lifecycle = "new"
    /\ \E throws \in BOOLEAN :
          /\ throws => reconnectAttempts < lim
          /\ Finish(Ev("created", NoMessage, "none", ~throws),
                    connectWebSocket(This, throws), App, << >>)
    /\ lifecycle' = "created"
    /\ UNCHANGED clientType

\* the open event of this.socket
SocketOpens ==
    /\ socket = "CONNECTING"
    /\ Finish(Ev("open", NoMessage, "none", TRUE),
              handleWebSocketOpen([This EXCEPT !.socket = "OPEN"]), App,
              <<Handshake(clientType, masterToken)>>)
    /\ UNCHANGED <<clientType, lifecycle>>

\* the close event of this.socket, after an error event when the connection
\* failed
SocketCloses(lim) ==
    /\ socket \in {"CONNECTING", "OPEN", "CLOSING"}
    /\ socket = "CONNECTING" => reconnectAttempts < lim
    /\ \E err \in BOOLEAN :
          LET t0 == [This EXCEPT !.socket = "CLOSED", !.liveSockets = @ - 1]
              t1 == IF err THEN handleWebSocketError(t0) ELSE t0
          IN Finish(Ev("close", NoMessage, "none", ~err),
                    handleWebSocketClose(t1), App, << >>)
    /\ UNCHANGED <<clientType, lifecycle>>

RemoveAt(q, i) == SubSeq(q, 1, i - 1) \o SubSeq(q, i + 1, Len(q))

\* an armed timeout expires
TimerFires(lim) ==
    /\ timers # << >>
    /\ \E i \in 1..Len(timers), throws \in BOOLEAN :
          /\ throws => reconnectAttempts + 1 < lim
          /\ LET t0 == [This EXCEPT
                          !.timers = RemoveAt(@, i),
                          !.reconnectTimer = IF i = Len(timers) /\ @ = "armed"
                                             THEN "fired" ELSE @]
             IN Finish(Ev("timer", NoMessage, "none", ~throws),
                       reconnectTimerCallback(t0, throws), App, << >>)
    /\ UNCHANGED <<clientType, lifecycle>>

\* the component is unmounted
Unmount ==
    /\ lifecycle = "created"
    /\ Finish(Ev("unmount", NoMessage, "none", TRUE), beforeUnmount(This), App, << >>)
    /\ lifecycle' = "unmounted"
    /\ UNCHANGED clientType

\* a message event of this.socket
Receive(m) ==
    /\ socket = "OPEN"
    /\ Finish(Ev("message", m, "none", TRUE), This, handleWebSocketMessage(App, m), << >>)
    /\ UNCHANGED <<clientType, lifecycle>>

\* a click on an operation button of the panel
Click(op) ==
    /\ clientType = "operation"
    /\ lifecycle = "created"
    /\ op = "incrementScoreTop" => boardData.score_top < MaxScore
    /\ op = "incrementScoreBottom" => boardData.score_bottom < MaxScore
    /\ \E confirmed \in (IF op = "resetGame" THEN BOOLEAN ELSE {TRUE}) :
          Finish(Ev("click", NoMessage, op, confirmed), This,
                 [App EXCEPT !.boardData = OperatorSurface(op, @, clientRole, confirmed)],
                 << >>)
    /\ UNCHANGED <<clientType, lifecycle>>

\* a click on the release button
ReleaseMaster ==
    /\ clientType = "operation"
    /\ lifecycle = "created"
    /\ \E confirmed \in BOOLEAN :
          LET r == releaseMasterControl(App, socket, confirmed)
          IN Finish(Ev("release", NoMessage, "none", confirmed), This, r.app, r.sent)
    /\ UNCHANGED <<clientType, lifecycle>>

-----------------------------------------------------------------------------
(* Construction: data() of either page.                                    *)

InitialBoardData(type) ==
    [game_title |-> "", team_top |-> "", team_bottom |-> "", game_inning |-> 0,
     last_inning |-> IF type = "operation" THEN DefaultLastInning ELSE BoardLastInning,
     top |-> (type = "board"),
     first_base |-> FALSE, second_base |-> FALSE, third_base |-> FALSE,
     ball_cnt |-> 0, strike_cnt |-> 0, out_cnt |-> 0, score_top |-> 0, score_bottom |-> 0]

Data(type) ==
    /\ clientType = type
    /\ lifecycle = "new"
    /\ boardData = InitialBoardData(type)
    /\ restoredFromServer = FALSE
    /\ socket = "null"
    /\ liveSockets = 0
    /\ connectionStatus = "connecting"
    /\ reconnectAttempts = 0
    /\ reconnectTimer = "null"
    /\ timers = << >>
    /\ clientRole = "null"
    /\ clientId = "null"
    /\ masterClientId = "null"
    /\ masterToken = "null"
    /\ event = Ev("data", NoMessage, "none", TRUE)
    /\ sent = << >>
    /\ grantedOnSocket = FALSE

Init == \E type \in {"operation", "board"} : Data(type)

-----------------------------------------------------------------------------
(* SpecConn: the connection lifecycle of either page, every failure the    *)
(* environment can produce, and a few inbound messages.                    *)

NoLimit == maxReconnectAttempts + 1

SnapshotA ==
    [game_title |-> "A", team_top |-> "", team_bottom |-> "", game_inning |-> 1,
     last_inning |-> 2, top |-> TRUE, first_base |-> TRUE, second_base |-> FALSE,
     third_base |-> FALSE, ball_cnt |-> 1, strike_cnt |-> 0, out_cnt |-> 2,
     score_top |-> 1, score_bottom |-> 0]

ConnMessages ==
    {RoleAssignment("master", "T1"), RoleAssignment("slave", "undefined"),
     GameStateMsg("game_state", "boardData", SnapshotA), Message("invalid", "undefined")}

NextConn ==
    \/ Created(NoLimit)
    \/ SocketOpens
    \/ SocketCloses(NoLimit)
    \/ TimerFires(NoLimit)
    \/ Unmount
    \/ \E m \in ConnMessages : Receive(m)

SpecConn == Init /\ [][NextConn]_vars

-----------------------------------------------------------------------------
(* Claims on the connection lifecycle, under SpecConn.                     *)

LiveStates == {"CONNECTING", "OPEN", "CLOSING"}

\* C6: once reconnectAttempts has reached 10 and the last attempt has failed
\* (no socket is connecting, open or closing any more), connectionStatus is
\* 'disconnected' and no reconnect timer is armed.
C6_GivesUpAfterTenAttempts ==
    (reconnectAttempts = 10 /\ socket \notin LiveStates)
        => (connectionStatus = "disconnected" /\ timers = << >>)

C6_Witness ==
    /\ reconnectAttempts = 10
    /\ event.kind = "close"
    /\ connectionStatus = "disconnected"

\* C7: 'disconnected' is terminal.  No step taken in a state whose status is
\* 'disconnected' changes the status, the attempts, the timer or the socket;
\* and in every such state the close handler itself, were a close event
\* delivered, leaves status, attempts and timer as they are.
C7_DisconnectedIsTerminal ==
    /\ [][connectionStatus = "disconnected" => UNCHANGED connVars]_vars
    /\ [](connectionStatus = "disconnected" =>
            LET t == handleWebSocketClose(This)
            IN /\ t.connectionStatus = connectionStatus
               /\ t.reconnectAttempts = reconnectAttempts
               /\ t.reconnectTimer = reconnectTimer
               /\ t.timers = timers)

C7_Witness ==
    /\ connectionStatus = "disconnected"
    /\ event.kind = "unmount"

\* C8: the timer armed at attempt count n (0..9) has delay 1000, 2000, 4000,
\* 8000, 16000 and then 30000, and the expiry of the timer increments
\* reconnectAttempts by exactly 1 before connect is retried.
BackoffTable == <<1000, 2000, 4000, 8000, 16000, 30000, 30000, 30000, 30000, 30000>>

C8_BackoffDelays ==
    /\ [](\A i \in 1..Len(timers) :
             /\ reconnectAttempts \in 0..9
             /\ timers[i] = BackoffTable[reconnectAttempts + 1])
    /\ [][event'.kind = "timer" =>
             /\ reconnectAttempts' = reconnectAttempts + 1
             /\ \/ socket' = "CONNECTING" /\ liveSockets' = liveSockets + 1
                \/ event'.ok = FALSE]_vars

C8_Witness ==
    /\ reconnectAttempts = 5
    /\ timers = <<30000>>
    /\ event.kind = "close"

\* C9: reconnectAttempts is lowered by the open handler only; after every
\* handled open it is 0 and the status is 'connected'.
C9_AttemptsResetOnOpenOnly ==
    /\ [](event.kind = "open" => (reconnectAttempts = 0 /\ connectionStatus = "connected"))
    /\ [][reconnectAttempts' < reconnectAttempts => event'.kind = "open"]_vars

C9_Witness ==
    /\ event.kind = "open"
    /\ reconnectAttempts = 0
    /\ connectionStatus = "connected"
    /\ reconnectTimer = "fired"

\* C10: at most one reconnect timer is pending and at most one connection
\* object is connecting, open or closing; the pending timer is the one the
\* handle designates, the live connection is this.socket, scheduleReconnect
\* called in any reachable state leaves at most one timer pending, and a
\* connection is constructed only when no other is live and no timer is
\* pending.
C10_OneTimerOneConnection ==
    /\ [](/\ Len(timers) <= 1
          /\ liveSockets <= 1
          /\ (timers # << >> => reconnectTimer = "armed")
          /\ (liveSockets = 1 <=> socket \in LiveStates)
          /\ ~(timers # << >> /\ liveSockets > 0)
          /\ Len(scheduleReconnect(This).timers) <= 1)
    /\ [][liveSockets' > liveSockets =>
             (liveSockets = 0 /\ socket \in {"null", "CLOSED"} /\ timers' = << >>)]_vars

C10_Witness ==
    /\ Len(timers) = 1
    /\ reconnectAttempts = 2
    /\ socket = "CLOSED"
    /\ liveSockets = 0

-----------------------------------------------------------------------------
(* Spec: the operation panel and the display board with role messages,     *)
(* game_state messages, operator clicks and reconnection.                  *)

SyncOps == {"ballCountUp", "ballCountDown", "changeOffense", "resetGame", "endGame"}

SyncMessages ==
    {RoleAssignment("master", "T1"), RoleAssignment("slave", "undefined"),
     RoleChanged("master", "T2", FALSE), RoleChanged("slave", "undefined", TRUE),
     GameStateMsg("game_state", "boardData", SnapshotA),
     GameStateMsg("undefined", "flat", InitialBoardData("operation"))}

Next ==
    \/ Created(MaxRetry)
    \/ SocketOpens
    \/ SocketCloses(MaxRetry)
    \/ TimerFires(MaxRetry)
    \/ Unmount
    \/ \E m \in SyncMessages : Receive(m)
    \/ \E op \in SyncOps : Click(op)
    \/ ReleaseMaster

Spec == Init /\ [][Next]_vars

-----------------------------------------------------------------------------
(* SpecGame: every operation button, on the operation panel once it is     *)
(* connected, has been assigned a role, and has restored an     *)
(* in-domain game state from the server.                                   *)

StartBoard(last, inning) ==
    [game_title |-> "A", team_top |-> "", team_bottom |-> "", game_inning |-> inning,
     last_inning |-> last, top |-> TRUE, first_base |-> TRUE, second_base |-> TRUE,
     third_base |-> TRUE, ball_cnt |-> 0, strike_cnt |-> 0, out_cnt |-> 0,
     score_top |-> 0, score_bottom |-> 0]

InitGame ==
    \E role \in {"master", "slave"}, last \in 1..MaxLastInning :
      \E inning \in 0..(last + 1) :
        /\ clientType = "operation"
        /\ lifecycle = "created"
        /\ boardData = StartBoard(last, inning)
        /\ restoredFromServer = FALSE
        /\ socket = "OPEN"
        /\ liveSockets = 1
        /\ connectionStatus = "connected"
        /\ reconnectAttempts = 0
        /\ reconnectTimer = "null"
        /\ timers = << >>
        /\ clientRole = role
        /\ clientId = "c1"
        /\ masterClientId = IF role = "master" THEN "c1" ELSE "c2"
        /\ masterToken = "null"
        /\ event = Ev("message",
                      GameStateMsg("game_state", "boardData", StartBoard(last, inning)),
                      "none", TRUE)
        /\ sent = << >>
        /\ grantedOnSocket = (role = "master")

NextGame == \E op \in OperatorOps : Click(op)

SpecGame == InitGame /\ [][NextGame]_vars

-----------------------------------------------------------------------------
(* SpecMerge: either page, connected, applying state payloads of every     *)
(* shape: full snapshots, partial payloads, typed and untyped envelopes.   *)
(* The environment produces no connection failure here.                    *)

SnapshotFalsy ==
    [game_title |-> "", team_top |-> "", team_bottom |-> "", game_inning |-> 0,
     last_inning |-> 1, top |-> FALSE, first_base |-> FALSE, second_base |-> FALSE,
     third_base |-> FALSE, ball_cnt |-> 0, strike_cnt |-> 0, out_cnt |-> 0,
     score_top |-> 0, score_bottom |-> 0]

SnapshotB ==
    [game_title |-> "B", team_top |-> "X", team_bottom |-> "Y", game_inning |-> 2,
     last_inning |-> 2, top |-> FALSE, first_base |-> FALSE, second_base |-> TRUE,
     third_base |-> TRUE, ball_cnt |-> 3, strike_cnt |-> 2, out_cnt |-> 1,
     score_top |-> 0, score_bottom |-> 1]

Snapshots == {SnapshotA, SnapshotB, SnapshotFalsy}

PartialPayloads ==
    {[out_cnt |-> 0], [top |-> FALSE, game_inning |-> 2], [game_title |-> ""],
     [score_top |-> 1, first_base |-> FALSE], EmptyPayload}

MergeMessages ==
    {GameStateMsg("game_state", shape, p) :
        shape \in {"boardData", "data", "flat"}, p \in Snapshots}
    \cup {GameStateMsg("game_state", "boardData", p) : p \in PartialPayloads}
    \cup {GameStateMsg("undefined", "flat", p) : p \in PartialPayloads \cup {SnapshotA}}
    \cup {RoleAssignment("master", "undefined"), RoleAssignment("slave", "undefined")}

\* event.data that is no JSON text, or the JSON text of null, of a number or
\* of a string
MalformedKinds == {"invalid", "null", "number", "string"}
MalformedMessages == {Message(j, "undefined") : j \in MalformedKinds}

NextMerge ==
    \/ Created(0)
    \/ SocketOpens
    \/ \E m \in MergeMessages : Receive(m)
    \/ \E m \in MalformedMessages : Receive(m)

SpecMerge == Init /\ [][NextMerge]_vars

-----------------------------------------------------------------------------
(* Claims on the role gate, the broadcast and the receivers.               *)

IsUpdate(msg) == msg.type = "game_state_update"

\* C2 (Spec): a game_state_update is sent only by a page whose role is master
\* and whose socket is open; a slave or unassigned page sends none.
C2_OnlyOpenMasterBroadcasts ==
    \A i \in 1..Len(sent) :
        IsUpdate(sent[i]) => (clientRole = "master" /\ socket = "OPEN")

C2_Witness ==
    /\ event.kind = "click"
    /\ Len(sent) = 1
    /\ IsUpdate(sent[1])
    /\ sent[1].boardData = boardData

AppliedGameState == event.kind = "message" /\ ~ParseThrows(event.msg) /\ IsGameState(event.msg)

\* C3 (Spec): the task that applies an inbound game_state or untyped message
\* sends no game_state_update, also on a master whose socket is open.
C3_NoRebroadcastOfRemoteState ==
    AppliedGameState => \A i \in 1..Len(sent) : ~IsUpdate(sent[i])

\* the watcher ran on the applied state (it consumed the flag) and sent nothing
C3_Witness ==
    /\ AppliedGameState
    /\ clientType = "operation"
    /\ clientRole = "master"
    /\ socket = "OPEN"
    /\ lifecycle = "created"
    /\ restoredFromServer = FALSE
    /\ boardData = SnapshotA
    /\ sent = << >>

AppliedPayload == event'.kind = "message" /\ event'.msg.json = "object" /\ IsGameState(event'.msg)

\* C4 (SpecMerge): applying a state payload gives every field present in the
\* payload the payload's value and leaves every absent field as it was, on
\* the display board and on the operation panel.
C4_PresenceMerge ==
    [][AppliedPayload =>
          LET p == ExtractPayload(event'.msg)
          IN \A f \in Fields :
                boardData'[f] = IF Has(p, f) THEN p[f] ELSE boardData[f]]_vars

\* the same, of the display board alone
C4_BoardPresenceMerge ==
    [][(AppliedPayload /\ clientType = "board") =>
          LET p == ExtractPayload(event'.msg)
          IN \A f \in Fields :
                boardData'[f] = IF Has(p, f) THEN p[f] ELSE boardData[f]]_vars

\* C5 (SpecMerge): after a page has applied a message that carries a full
\* snapshot S, its game state equals S in every field.
C5_MirrorsFullSnapshot ==
    [][(AppliedPayload /\ DOMAIN ExtractPayload(event'.msg) = Fields) =>
          \A f \in Fields : boardData'[f] = ExtractPayload(event'.msg)[f]]_vars

\* the same, of the display board alone
C5_BoardMirrorsFullSnapshot ==
    [][(AppliedPayload /\ clientType = "board"
          /\ DOMAIN ExtractPayload(event'.msg) = Fields) =>
          \A f \in Fields : boardData'[f] = ExtractPayload(event'.msg)[f]]_vars

-----------------------------------------------------------------------------
(* Claims on the operator's methods, under SpecGame.                       *)

\* C11 (SpecGame): from an in-domain state with last_inning >= 1, after any
\* sequence of operation buttons the counts stay in 0..3, 0..2 and 0..2, the
\* scores stay non-negative, game_inning stays in 0..last_inning + 1 and
\* last_inning is not changed.
C11_FieldsInDomain ==
    /\ [](/\ boardData.ball_cnt \in 0..MaxBall
          /\ boardData.strike_cnt \in 0..MaxStrike
          /\ boardData.out_cnt \in 0..MaxOut
          /\ boardData.score_top >= 0
          /\ boardData.score_bottom >= 0
          /\ boardData.last_inning >= 1
          /\ boardData.game_inning \in 0..(boardData.last_inning + 1))
    /\ [][boardData'.last_inning = boardData.last_inning]_vars

\* a clamped step at the upper bound of the ball count, in a finished game
C11_Witness ==
    /\ clientRole = "master"
    /\ event.kind = "click"
    /\ event.op = "ballCountUp"
    /\ boardData.ball_cnt = MaxBall
    /\ boardData.strike_cnt = MaxStrike
    /\ boardData.game_inning = boardData.last_inning + 1
    /\ sent = << >>

-----------------------------------------------------------------------------
(* Claims on the role and the master token.                                *)

\* C12 (Spec): clientRole changes only in the task that handles an inbound
\* role_assignment or role_changed message; a release, an operation button,
\* created, open, close, a timer expiry, unmount and every other inbound
\* message leave it as it is.
C12_RoleChangesByRoleMessageOnly ==
    [][clientRole' # clientRole =>
          (event'.kind = "message" /\ IsRoleMessage(event'.msg))]_vars

\* a confirmed release by the master: the request is sent, the role stays
C12_Witness ==
    /\ event.kind = "release"
    /\ event.ok
    /\ Len(sent) = 1
    /\ sent[1].type = "release_master"
    /\ clientRole = "master"

-----------------------------------------------------------------------------
(* SpecRole: either page with every kind of role message (with and without *)
(* a token, with and without the clear instruction), the release button    *)
(* and reconnection.                                                       *)

RoleMessages ==
    {RoleAssignment(r, tok) : r \in {"master", "slave"}, tok \in {"undefined", "", "T1"}}
    \cup {RoleChanged(r, tok, clear) :
            r \in {"master", "slave"}, tok \in {"undefined", "T2"}, clear \in BOOLEAN}
    \cup {GameStateMsg("game_state", "boardData", SnapshotA)}

NextRole ==
    \/ Created(MaxRetry)
    \/ SocketOpens
    \/ SocketCloses(MaxRetry)
    \/ TimerFires(MaxRetry)
    \/ Unmount
    \/ \E m \in RoleMessages : Receive(m)
    \/ ReleaseMaster

SpecRole == Init /\ [][NextRole]_vars

\* C13 (SpecRole): the task that handles the open event of a socket sends
\* exactly one message, a handshake that declares the page's type
\* ('operation' or 'board') and carries the stored master token exactly when
\* one is stored; no other task sends a handshake.
C13_HandshakeOnEveryOpen ==
    /\ (event.kind = "open" =>
          /\ Len(sent) = 1
          /\ sent[1].type = "handshake"
          /\ sent[1].clientType = clientType
          /\ (masterToken = "null" <=> sent[1].masterToken = "undefined")
          /\ (masterToken # "null" => sent[1].masterToken = masterToken))
    /\ (event.kind # "open" => \A i \in 1..Len(sent) : sent[i].type # "handshake")

\* the master granted T1 lost its connection and presents T1 on the reconnect
C13_Witness ==
    /\ event.kind = "open"
    /\ clientType = "operation"
    /\ reconnectTimer = "fired"
    /\ clientRole = "master"
    /\ masterToken = "T1"
    /\ sent = <<[type |-> "handshake", clientType |-> "operation", masterToken |-> "T1"]>>

\* C14 (SpecRole): the credential store is empty at the start, and a step
\* puts a token into it (an empty store gets one, or the stored one is
\* replaced) only in the task that handles a role_assignment or role_changed
\* message that grants master and carries exactly that token; so a message
\* granting slave, or granting master without a token, writes none.
C14_TokenOnlyFromMasterGrant ==
    /\ masterToken = "null"
    /\ [][(masterToken' # masterToken /\ masterToken' # "null") =>
             /\ event'.kind = "message"
             /\ IsRoleMessage(event'.msg)
             /\ GrantedRole(event'.msg) = "master"
             /\ event'.msg.masterToken = masterToken']_vars

\* a later grant replaced the token of the first one
C14_Witness ==
    /\ event.kind = "message"
    /\ event.msg = RoleChanged("master", "T2", FALSE)
    /\ clientRole = "master"
    /\ clientId = "c1"
    /\ masterToken = "T2"

\* C15 (SpecRole): after the task that handles a role_changed message with
\* clearToken the store holds no token, whatever newRole and masterToken the
\* message carries; a role_changed message without clearToken that does not
\* grant master with a token leaves the stored token as it was.
C15_ClearInstructionWins ==
    [][(event'.kind = "message" /\ event'.msg.json = "object"
          /\ event'.msg.type = "role_changed") =>
          IF event'.msg.clearToken
          THEN masterToken' = "null"
          ELSE (~(event'.msg.newRole = "master" /\ event'.msg.masterToken # "undefined")
                  => masterToken' = masterToken)]_vars

\* a message that grants master with T2 and carries the clear instruction
\* has left the store empty
C15_Witness ==
    /\ clientType = "operation"
    /\ event.kind = "message"
    /\ event.msg = RoleChanged("master", "T2", TRUE)
    /\ clientRole = "master"
    /\ masterToken = "null"
    /\ masterClientId = "c1"

ReleaseRequest == [type |-> "release_master"]

\* C16 as claimed (SpecRole): a confirmed release while the role is master
\* sends exactly one release_master message and leaves the store without a
\* token; a release while the role is slave or unassigned sends nothing and
\* leaves the stored token and the role unchanged.
C16_ReleaseWhileMaster ==
    [][event'.kind = "release" =>
          /\ (event'.ok /\ clientRole = "master") =>
                (sent' = <<ReleaseRequest>> /\ masterToken' = "null")
          /\ clientRole # "master" =>
                (sent' = << >> /\ masterToken' = masterToken /\ clientRole' = clientRole)]_vars

\* C16 as amended (SpecRole): a confirmed release while the role is master
\* and the socket is open sends exactly one release_master message and
\* leaves the store without a token; a confirmed release while the role is
\* master and the socket is not open, and a release while the role is slave
\* or unassigned, send nothing and leave the stored token and the role
\* unchanged.
C16_ReleaseWhileOpenMaster ==
    [][event'.kind = "release" =>
          /\ (event'.ok /\ clientRole = "master" /\ socket = "OPEN") =>
                (sent' = <<ReleaseRequest>> /\ masterToken' = "null"
                   /\ clientRole' = clientRole)
          /\ ((event'.ok /\ clientRole = "master" /\ socket # "OPEN")
                \/ clientRole # "master") =>
                (sent' = << >> /\ masterToken' = masterToken /\ clientRole' = clientRole)]_vars

\* the master, granted a token and connected, has released
C16_Witness ==
    /\ event.kind = "release"
    /\ event.ok
    /\ socket = "OPEN"
    /\ connectionStatus = "connected"
    /\ clientRole = "master"
    /\ clientId = "c1"
    /\ masterToken = "null"
    /\ sent = <<ReleaseRequest>>

-----------------------------------------------------------------------------
(* Claims on malformed input and on a failing constructor.                 *)

\* C17 (SpecMerge): the task that handles a malformed message (no JSON, or
\* the JSON of null, a number or a string) leaves every field of the game
\* state unchanged, on the operation panel and on the display board.
C17_MalformedLeavesState ==
    [][(event'.kind = "message" /\ event'.msg.json \in MalformedKinds)
          => boardData' = boardData]_vars

\* the same, of the display board alone
C17_BoardMalformedLeavesState ==
    [][(event'.kind = "message" /\ event'.msg.json \in MalformedKinds
          /\ clientType = "board") => boardData' = boardData]_vars

ConstructionThrew == event'.kind \in {"created", "timer"} /\ ~event'.ok

\* C18 (SpecConn): after a task in which the WebSocket constructor threw
\* inside connectWebSocket, the connection is where an unexpected close
\* would have left it: status 'reconnecting' with exactly one timer armed at
\* the backoff delay of the current attempts, or status 'disconnected' with
\* no timer when the attempts have reached 10.
C18_ConstructFailureLikeClose ==
    [][ConstructionThrew =>
          LET closed == handleWebSocketClose([socket |-> socket', liveSockets |-> liveSockets',
                            connectionStatus |-> connectionStatus,
                            reconnectAttempts |-> reconnectAttempts',
                            reconnectTimer |-> "null", timers |-> << >>])
          IN /\ connectionStatus' = closed.connectionStatus
             /\ timers' = closed.timers
             /\ IF reconnectAttempts' >= maxReconnectAttempts
                THEN connectionStatus' = "disconnected" /\ timers' = << >>
                ELSE /\ connectionStatus' = "reconnecting"
                     /\ timers' = <<BackoffTable[reconnectAttempts' + 1]>>]_vars

-----------------------------------------------------------------------------
(* Claims on the inning state machine, under SpecGame.                     *)

\* C19 as claimed (SpecGame, last_inning >= 1): no single operation takes the
\* game from not started (game_inning = 0) to finished (game_inning =
\* last_inning + 1).
C19_NoDirectFinish ==
    [][~(boardData.game_inning = 0
         /\ boardData'.game_inning = boardData'.last_inning + 1)]_vars

\* C19 as amended (SpecGame, last_inning >= 1): no single operation other
\* than endGame takes the game from not started to finished; every other
\* operation applied to a game that has not started leaves it not started
\* or takes it to inning 1, which is in progress.
C19_OnlyEndGameFinishesDirectly ==
    [][(boardData.game_inning = 0 /\ event'.op # "endGame") =>
          /\ boardData'.game_inning \in {0, 1}
          /\ boardData'.game_inning <= boardData'.last_inning]_vars

\* gameForward took the game from (0, bottom) to (1, top)
C19_Witness ==
    /\ clientRole = "master"
    /\ event.kind = "click"
    /\ event.op = "gameForward"
    /\ boardData.game_inning = 1
    /\ boardData.top
    /\ Len(sent) = 1

\* C20 (SpecGame): gameForward, while game_inning <= last_inning, takes
\* (i, top) to (i, bottom) and (i, bottom) to (i + 1, top), clears the three
\* bases and the ball, strike and out counts and leaves the scores (and
\* every other field) as they were; at game_inning = last_inning + 1 it
\* changes nothing.
C20_GameForward ==
    [][(event'.kind = "click" /\ event'.op = "gameForward" /\ clientRole # "slave") =>
          IF boardData.game_inning <= boardData.last_inning
          THEN /\ boardData'.game_inning =
                     IF boardData.top THEN boardData.game_inning
                     ELSE boardData.game_inning + 1
               /\ boardData'.top = ~boardData.top
               /\ \A f \in {"first_base", "second_base", "third_base"} :
                     boardData'[f] = FALSE
               /\ \A f \in {"ball_cnt", "strike_cnt", "out_cnt"} : boardData'[f] = 0
               /\ \A f \in {"score_top", "score_bottom", "last_inning"} \cup TextFields :
                     boardData'[f] = boardData[f]
          ELSE boardData' = boardData]_vars

\* gameForward took the game from (last_inning, bottom) to finished
C20_Witness ==
    /\ clientRole = "master"
    /\ event.kind = "click"
    /\ event.op = "gameForward"
    /\ boardData.game_inning = boardData.last_inning + 1
    /\ boardData.top
    /\ boardData.score_top = 1
    /\ Len(sent) = 1

BasesAndCountsClear(bd) ==
    /\ \A f \in {"first_base", "second_base", "third_base"} : bd[f] = FALSE
    /\ \A f \in {"ball_cnt", "strike_cnt", "out_cnt"} : bd[f] = 0

ClickedBy(op) == event'.kind = "click" /\ event'.op = op /\ clientRole # "slave"

\* C21 (SpecGame): gameBackward, while game_inning >= 1, takes (i, top) to
\* (i - 1, bottom) and (i, bottom) to (i, top) and clears the bases and the
\* counts; both scores become 0 when the resulting inning is 0 and are left
\* as they were otherwise; at game_inning = 0 it changes nothing.
C21_GameBackward ==
    [][ClickedBy("gameBackward") =>
          IF boardData.game_inning >= 1
          THEN /\ boardData'.game_inning =
                     IF boardData.top THEN boardData.game_inning - 1
                     ELSE boardData.game_inning
               /\ boardData'.top = ~boardData.top
               /\ BasesAndCountsClear(boardData')
               /\ IF boardData'.game_inning = 0
                  THEN boardData'.score_top = 0 /\ boardData'.score_bottom = 0
                  ELSE /\ boardData'.score_top = boardData.score_top
                       /\ boardData'.score_bottom = boardData.score_bottom
               /\ \A f \in {"last_inning"} \cup TextFields : boardData'[f] = boardData[f]
          ELSE boardData' = boardData]_vars

\* gameBackward took the game from (1, top) back to (0, bottom)
C21_Witness ==
    /\ clientRole = "master"
    /\ event.kind = "click"
    /\ event.op = "gameBackward"
    /\ boardData.game_inning = 0
    /\ ~boardData.top
    /\ boardData.score_top = 0
    /\ boardData.score_bottom = 0
    /\ Len(sent) = 1

\* C22 as claimed (SpecGame): gameStatusUp and gameStatusDown move
\* game_inning by one within 0..last_inning + 1 without changing top or the
\* scores, and after every call, also one at the bound where the inning does
\* not move, the bases are clear and the counts are 0.
C22_StatusStepAlwaysClears ==
    [][(ClickedBy("gameStatusUp") \/ ClickedBy("gameStatusDown")) =>
          /\ boardData'.game_inning =
                IF event'.op = "gameStatusUp"
                THEN Min(boardData.game_inning + 1, boardData.last_inning + 1)
                ELSE IF boardData.game_inning > 0 THEN boardData.game_inning - 1 ELSE 0
          /\ boardData'.top = boardData.top
          /\ boardData'.score_top = boardData.score_top
          /\ boardData'.score_bottom = boardData.score_bottom
          /\ BasesAndCountsClear(boardData')]_vars

\* C22 as amended (SpecGame): gameStatusUp and gameStatusDown move
\* game_inning by one within 0..last_inning + 1 without changing top or the
\* scores; a call that moves the inning clears the bases and the counts,
\* and a call at the bound, where the inning does not move, changes nothing.
C22_StatusStepClearsWhenItMoves ==
    [][(ClickedBy("gameStatusUp") \/ ClickedBy("gameStatusDown")) =>
          LET moves == IF event'.op = "gameStatusUp"
                       THEN boardData.game_inning < boardData.last_inning + 1
                       ELSE boardData.game_inning > 0
          IN IF moves
             THEN /\ boardData'.game_inning =
                        IF event'.op = "gameStatusUp" THEN boardData.game_inning + 1
                        ELSE boardData.game_inning - 1
                  /\ boardData'.top = boardData.top
                  /\ boardData'.score_top = boardData.score_top
                  /\ boardData'.score_bottom = boardData.score_bottom
                  /\ BasesAndCountsClear(boardData')
                  /\ \A f \in {"last_inning"} \cup TextFields : boardData'[f] = boardData[f]
             ELSE boardData' = boardData]_vars

\* gameStatusUp called on a finished game has left a ball count standing
C22_Witness ==
    /\ clientRole = "master"
    /\ event.kind = "click"
    /\ event.op = "gameStatusUp"
    /\ boardData.game_inning = boardData.last_inning + 1
    /\ boardData.ball_cnt = 1
    /\ sent = << >>

-----------------------------------------------------------------------------
(* Claims on behaviours: broadcast of local changes, teardown, reconnect.  *)

\* C23 (Spec): every change of the game state made by an operation button
\* while the role is master and the socket is open is followed, in the same
\* task, by exactly one game_state_update that carries the whole state after
\* the change, whatever game_state messages were applied before it.
C23_LocalChangeIsBroadcast ==
    [][(event'.kind = "click" /\ clientRole = "master" /\ socket = "OPEN"
          /\ boardData' # boardData) =>
          sent' = <<UpdateMsg(boardData')>>]_vars

\* C24 (SpecConn): once the component is unmounted (beforeUnmount has
\* cancelled the timer and closed the socket), no step arms a reconnect
\* timer or constructs a connection, also not the close event of the socket
\* that the teardown closed.
C24_NothingAfterTeardown ==
    [][lifecycle = "unmounted" =>
          /\ timers' = << >>
          /\ liveSockets' <= liveSockets
          /\ socket' # "CONNECTING"]_vars

\* C25 (Spec): the operation panel sends a game_state_update only on a
\* socket on which it has handled, since that socket opened, a
\* role_assignment or role_changed message granting it master; after a
\* reconnect the role held on the previous socket authorizes no broadcast.
C25_NoBroadcastBeforeRoleOnSocket ==
    \A i \in 1..Len(sent) : IsUpdate(sent[i]) => grantedOnSocket

====
